---- MODULE Spec2Model ----
(***************************************************************************)
(* ipc.go: length-prefixed frames over a named pipe.                       *)
(*                                                                         *)
(* Two processes share one FIFO: process R hosts the reader loop started   *)
(* by OpenPipeReader, process W hosts the writer loop started by           *)
(* OpenPipeWriter.  The kernel FIFO, bufio.Reader, bufio.Writer,           *)
(* io.ReadFull, os/signal and os.Exit are modelled by what they do to the  *)
(* state the functions of ipc.go read and write.                           *)
(***************************************************************************)
EXTENDS Integers, Sequences, FiniteSets, TLC

\* ---------------------------------------------------------------- bounds
\* Messages the caller of the writer sends in the default scenario.
MaxMsgs == 2
\* Longest payload the caller sends.
MaxLen == 1
\* Size of the bufio.Reader / bufio.Writer buffer (4096 in Go), scaled down
\* so that a frame can overflow it.
BufSize == 8
\* Capacity of the kernel's pipe buffer (65536 on Linux), scaled down.
PipeCap == 9
\* Capacity of the caller's pipeInput channel.
InQCap == 1

\* ------------------------------------------------------- program constants
\* const numSizeBytes = 64 / 8
numSizeBytes == 8
\* make(chan []byte, 10)
ChanCap == 10

\* Payload byte values the caller uses.
ByteVals == {7}

\* ---------------------------------------------------------------- helpers
Min(a, b) == IF a < b THEN a ELSE b

Take(s, n) == SubSeq(s, 1, n)

Drop(s, n) == SubSeq(s, n + 1, Len(s))

IsPrefix(s, t) == Len(s) <= Len(t) /\ s = SubSeq(t, 1, Len(s))

\* A Go []byte value: nil and the empty slice are different values of
\* length 0.
Nil == [isNil |-> TRUE, bytes |-> <<>>]

Slice(b) == [isNil |-> FALSE, bytes |-> b]

GoLen(m) == Len(m.bytes)

\* make([]byte, n): n zero bytes.
Zeros(n) == [i \in 1..n |-> 0]

\* Payloads of length 0..MaxLen over ByteVals.
Payloads == UNION {[1..n -> ByteVals] : n \in 0..MaxLen}

\* ------------------------------------------------------------- frame codec
\* uint64 values are kept exact below Huge; a value of Huge or more is
\* clamped to Huge (the model's integers are 32 bits wide).  No frame the
\* writer of ipc.go produces within the bounds declares such a length.
Huge == 8388607 * 256

\* v >> (8 * i)
RECURSIVE Shr8(_, _)
Shr8(v, i) == IF i = 0 THEN v ELSE Shr8(v \div 256, i - 1)

\* Variant of PutUint64: the prefix written most significant byte first.
PutUint64BE(v) == [i \in 1..numSizeBytes |-> Shr8(v, numSizeBytes - i) % 256]

\* binary.LittleEndian.PutUint64(writeSizeBytes[:], uint64(len(data)))
PutUint64(v) == [i \in 1..numSizeBytes |-> Shr8(v, i - 1) % 256]

\* binary.LittleEndian.Uint64(b) on a slice of at least 8 bytes:
\* b[0] | b[1]<<8 | ... | b[7]<<56.
Uint64(b) ==
    IF b[5] = 0 /\ b[6] = 0 /\ b[7] = 0 /\ b[8] = 0 /\ b[4] < Huge \div (256 * 256 * 256)
    THEN b[1] + 256 * b[2] + 256 * 256 * b[3] + 256 * 256 * 256 * b[4]
    ELSE Huge

\* `_ = b[7]` in Uint64: index out of range on a slice shorter than 8.
Uint64Panics(m) == GoLen(m) < numSizeBytes

\* make([]byte, numBytes) in loggedRead: the runtime panics (makeslice: len
\* out of range) on a length it cannot allocate.
MakePanics(n) == n >= Huge

\* Variant of loggedRead: readData is returned also when readErr # nil.
loggedReadKeepsBuffer(readData, readErr) == Slice(readData)

\* loggedRead's return value, given the buffer readData as io.ReadFull left
\* it and readErr ("nil" when there was none).
loggedRead(readData, readErr) == IF readErr # "nil" THEN Nil ELSE Slice(readData)

\* Variant of doesFileExist: the stat error is not looked at.
doesFileExistAlways(f) == TRUE

\* What can be at pipePath: nothing, a FIFO, a directory that is not empty,
\* a symbolic link whose target is missing.
PathKinds == {"none", "fifo", "dir", "dangling"}

\* doesFileExist: !os.IsNotExist(stat error).  os.Stat follows symbolic
\* links, so it reports ENOENT for a link whose target is missing.
doesFileExist(f) == f \notin {"none", "dangling"}

\* ------------------------------------------------------------------ state
VARIABLES
    fs,          \* what is at pipePath, one of PathKinds
    cpc,         \* the CreatePipe call in progress: "idle" | "remove" | "mkfifo"
    quota,       \* how many messages the caller of the writer will send
    menu,        \* the payloads it chooses from
    procR,       \* process hosting the reader: "running" | "exit0" | "exit1" | "panic" | "killed"
    procW,       \* process hosting the writer
    hR,          \* R's termination listener: "none" | "notified" | "missed" | "listening"
                 \*   ("missed": notified, and a signal was dropped meanwhile)
    hW,
    rRet,        \* last result of OpenPipeReader: "none" | "err" | "ok"
    wRet,
    rpc,         \* reader goroutine: "none" | "setup" | "open" | "opening" | "readSize" | "readData" | "send"
    wpc,         \* writer goroutine: "none" | "setup" | "open" | "opening" | "recv" | "writeSize" | "writeData" | "flush" | "done"
    rPipe,       \* the reader's *os.File: "none" | "open" | "nil" | "dir"
    wPipe,       \* the writer's *os.File: "none" | "open" | "nil" | "closed"
    rEnd,        \* the FIFO's read end: "never" | "open" | "closed"
    wEnd,        \* the FIFO's write end
    pipe,        \* bytes in the kernel's pipe buffer
    rBuf,        \* bufio.Reader: bytes fetched and not yet consumed
    rGot,        \* io.ReadFull: bytes of readData filled so far
    rSize,       \* readSize
    rData,       \* readData, the message in hand at `pipeChannel <- readData`
    rErr,        \* readErr of the last loggedRead: "nil" | "EOF" | "ErrUnexpectedEOF" | "ErrInvalid" | "EISDIR"
    pipeChannel, \* the channel made in OpenPipeReader
    pipeData,    \* the channel the caller passed to OpenPipeReader
    pipeInput,   \* the channel the caller passed to OpenPipeWriter
    inClosed,    \* close(pipeInput) was called
    taken,       \* messages the writer loop received from pipeInput, in order
    wData,       \* data
    wP,          \* bufio.Writer.Write: bytes of p not yet accepted
    wBuf,        \* bufio.Writer: buffered bytes
    wOut,        \* bytes of the write syscall in progress not yet in the pipe
    wSys,        \* write syscall in progress: "none" | "direct" | "fill" | "flush"
    wErr,        \* bufio.Writer's sticky error b.err # nil
    glog         \* kinds of glog.Error records emitted

vars == <<fs, cpc, quota, menu, procR, procW, hR, hW, rRet, wRet, rpc, wpc, rPipe, wPipe,
          rEnd, wEnd, pipe, rBuf, rGot, rSize, rData, rErr, pipeChannel, pipeData,
          pipeInput, inClosed, taken, wData, wP, wBuf, wOut, wSys, wErr, glog>>

envVars == <<fs, cpc, quota, menu>>

rVars == <<procR, hR, rRet, rpc, rPipe, rEnd, rBuf, rGot, rSize, rData, rErr,
           pipeChannel, pipeData>>

wVars == <<procW, hW, wRet, wpc, wPipe, wEnd, pipeInput, inClosed, taken, wData,
           wP, wBuf, wOut, wSys, wErr>>

\* The state after process start, before any call into the package, with
\* one of `kinds` at pipePath.
InitAt(q, m, kinds) ==
    /\ fs \in kinds /\ cpc = "idle"
    /\ quota = q /\ menu = m
    /\ procR = "running" /\ procW = "running"
    /\ hR = "none" /\ hW = "none"
    /\ rRet = "none" /\ wRet = "none"
    /\ rpc = "none" /\ wpc = "none"
    /\ rPipe = "none" /\ wPipe = "none"
    /\ rEnd = "never" /\ wEnd = "never"
    /\ pipe = <<>> /\ rBuf = <<>> /\ rGot = <<>>
    /\ rSize = 0 /\ rData = Nil /\ rErr = "nil"
    /\ pipeChannel = <<>> /\ pipeData = <<>>
    /\ pipeInput = <<>> /\ inClosed = FALSE /\ taken = <<>>
    /\ wData = <<>> /\ wP = <<>> /\ wBuf = <<>> /\ wOut = <<>>
    /\ wSys = "none" /\ wErr = FALSE
    /\ glog = {}

\* pipePath is free or holds a FIFO.
InitWith(q, m) == InitAt(q, m, {"none", "fifo"})

Init == InitWith(MaxMsgs, Payloads)

\* ------------------------------------------------------ process exit
\* A process ends (os.Exit, a panic, a fatal signal): the kernel closes its
\* end of the FIFO.
EndClosed(e) == IF e = "open" THEN "closed" ELSE e

\* --------------------------------------------------------- the filesystem
\* CreatePipe is entered: doesFileExist(pipePath) decides between os.Remove
\* and syscall.Mkfifo.  The application creates the pipe before it starts a
\* loop on it, and starts none while the call is in progress.
CreatePipe ==
    /\ procR = "running" \/ procW = "running"
    /\ rpc = "none" /\ wpc = "none" /\ cpc = "idle"
    /\ cpc' = IF doesFileExist(fs) THEN "remove" ELSE "mkfifo"
    /\ UNCHANGED <<fs, quota, menu, rVars, wVars, pipe, glog>>

\* os.Remove(pipePath): removes a FIFO or a symbolic link; fails on a
\* directory that is not empty and on a path that is gone meanwhile, and
\* CreatePipe then returns the error.
CreateRemove ==
    /\ cpc = "remove"
    /\ IF fs \in {"fifo", "dangling"}
       THEN fs' = "none" /\ cpc' = "mkfifo"
       ELSE fs' = fs /\ cpc' = "idle"
    /\ UNCHANGED <<quota, menu, rVars, wVars, pipe, glog>>

\* return syscall.Mkfifo(pipePath, 0777): EEXIST when anything is at
\* pipePath, a symbolic link included.
CreateMkfifo ==
    /\ cpc = "mkfifo"
    /\ fs' = IF fs = "none" THEN "fifo" ELSE fs
    /\ cpc' = "idle"
    /\ UNCHANGED <<quota, menu, rVars, wVars, pipe, glog>>

\* Another program removes the entry at pipePath, while a call or a task of
\* the package has still to look at it.
RemovePath ==
    /\ fs = "fifo"
    /\ \/ procR = "running" /\ rpc \in {"none", "setup", "open"}
       \/ procW = "running" /\ wpc \in {"none", "setup", "open"}
    /\ fs' = "none"
    /\ UNCHANGED <<cpc, quota, menu, rVars, wVars, pipe, glog>>

\* ------------------------------------------------------------ OpenPipeReader
\* Variant of OpenPipeReader: the pipe is opened by the call itself, which
\* then waits for a writer.
OpenPipeReaderSync ==
    /\ procR = "running" /\ rRet # "ok" /\ cpc = "idle"
    /\ IF ~doesFileExist(fs)
       THEN rRet' = "err" /\ UNCHANGED <<rpc, rEnd, rPipe>>
       ELSE /\ wEnd # "never"
            /\ rRet' = "ok" /\ rpc' = "readSize" /\ rEnd' = "open" /\ rPipe' = "open"
    /\ UNCHANGED <<envVars, wVars, pipe, glog, procR, hR, rBuf, rGot, rSize,
                   rData, rErr, pipeChannel, pipeData>>

\* The synchronous part of OpenPipeReader: the existence check, make(chan),
\* the go statement, return nil.
OpenPipeReader ==
    /\ procR = "running" /\ rRet # "ok" /\ cpc = "idle"
    /\ IF ~doesFileExist(fs)
       THEN rRet' = "err" /\ rpc' = rpc
       ELSE rRet' = "ok" /\ rpc' = "setup"
    /\ UNCHANGED <<envVars, wVars, pipe, glog, procR, hR, rPipe, rEnd, rBuf, rGot,
                   rSize, rData, rErr, pipeChannel, pipeData>>

\* setupCloseHandler in the reader's task: signal.Notify(c, ...) and the go
\* statement of the listener.
RSetupCloseHandler ==
    /\ procR = "running" /\ rpc = "setup"
    /\ hR' = "notified" /\ rpc' = "open"
    /\ UNCHANGED <<envVars, wVars, pipe, glog, procR, rRet, rPipe, rEnd, rBuf, rGot,
                   rSize, rData, rErr, pipeChannel, pipeData>>

\* The listener goroutine reaches `<-c`.
RListen ==
    /\ procR = "running" /\ hR \in {"notified", "missed"}
    /\ hR' = "listening"
    /\ UNCHANGED <<envVars, wVars, pipe, glog, procR, rRet, rpc, rPipe, rEnd, rBuf,
                   rGot, rSize, rData, rErr, pipeChannel, pipeData>>

\* os.OpenFile(pipePath, os.O_RDONLY, 0777) is entered: ENOENT when nothing
\* or a dangling link is at pipePath (logged, and the task goes on with a
\* nil *os.File); a directory is opened at once; on a FIFO the task is
\* counted as a reader and blocks.
ROpenCall ==
    /\ procR = "running" /\ rpc = "open"
    /\ CASE fs \in {"none", "dangling"} ->
              /\ glog' = glog \cup {"open-read"}
              /\ rPipe' = "nil" /\ rpc' = "readSize" /\ rEnd' = rEnd
         [] fs = "dir" ->
              /\ rPipe' = "dir" /\ rpc' = "readSize"
              /\ UNCHANGED <<glog, rEnd>>
         [] fs = "fifo" ->
              /\ rEnd' = "open" /\ rpc' = "opening"
              /\ UNCHANGED <<glog, rPipe>>
    /\ UNCHANGED <<envVars, wVars, pipe, procR, hR, rRet, rBuf, rGot, rSize, rData,
                   rErr, pipeChannel, pipeData>>

\* The open returns once a writer has opened the FIFO too.
ROpenReturn ==
    /\ procR = "running" /\ rpc = "opening" /\ wEnd # "never"
    /\ rPipe' = "open" /\ rpc' = "readSize"
    /\ UNCHANGED <<envVars, wVars, pipe, glog, procR, hR, rRet, rEnd, rBuf, rGot,
                   rSize, rData, rErr, pipeChannel, pipeData>>

\* numBytes of the loggedRead in progress.
RNumBytes == IF rpc = "readSize" THEN numSizeBytes ELSE rSize

\* loggedRead returns: io.ReadFull ended with `got` in readData and readErr
\* `err`.  In the first phase the result goes through
\* binary.LittleEndian.Uint64 (which panics on fewer than 8 bytes) and, for
\* readSize = 0, through the second loggedRead, which returns at once; in
\* the second phase it becomes readData and the task stands at
\* `pipeChannel <- readData`.
RFinish(got, err, nbuf, npipe) ==
    \E ret \in {loggedRead(got \o Zeros(RNumBytes - Len(got)), err)} :
        /\ rBuf' = nbuf /\ pipe' = npipe /\ rGot' = <<>>
        /\ glog' = IF err # "nil" THEN glog \cup {"read"} ELSE glog
        /\ IF rpc = "readSize"
           THEN IF Uint64Panics(ret)
                THEN /\ procR' = "panic" /\ rEnd' = EndClosed(rEnd)
                     /\ rErr' = err
                     /\ UNCHANGED <<rpc, rSize, rData>>
                ELSE \E readSize \in {Uint64(ret.bytes)} :
                        /\ rSize' = readSize
                        /\ IF MakePanics(readSize)
                           THEN /\ procR' = "panic" /\ rEnd' = EndClosed(rEnd)
                                /\ rErr' = err
                                /\ UNCHANGED <<rpc, rData>>
                           ELSE /\ IF readSize = 0
                                   THEN /\ rData' = loggedRead(<<>>, "nil")
                                        /\ rpc' = "send" /\ rErr' = "nil"
                                   ELSE /\ rData' = rData
                                        /\ rpc' = "readData" /\ rErr' = err
                                /\ UNCHANGED <<procR, rEnd>>
           ELSE /\ rData' = ret /\ rpc' = "send" /\ rErr' = err
                /\ UNCHANGED <<procR, rEnd, rSize>>

\* Variant of RProgress: a single Read, not repeated after a short one.
RProgressSingleRead(got, nbuf, npipe) == RFinish(got, "nil", nbuf, npipe)

\* One Read of io.ReadFull's loop left readData at `got`: io.ReadFull
\* returns when readData is full and reads again otherwise.
RProgress(got, nbuf, npipe) ==
    IF Len(got) = RNumBytes
    THEN RFinish(got, "nil", nbuf, npipe)
    ELSE /\ rGot' = got /\ rBuf' = nbuf /\ pipe' = npipe
         /\ UNCHANGED <<glog, procR, rEnd, rpc, rSize, rData, rErr>>

\* One call of bufio.Reader.Read from io.ReadFull inside loggedRead: from
\* the buffer when it holds bytes; else one read of the pipe (into the
\* buffer, or straight into readData when that is at least a buffer long),
\* which returns what the pipe holds, blocks on an empty pipe with a writer,
\* and returns EOF on an empty pipe without one.  A nil file returns
\* os.ErrInvalid, a directory EISDIR.
RRead ==
    /\ procR = "running" /\ rpc \in {"readSize", "readData"}
    /\ \E need \in {RNumBytes - Len(rGot)} :
           \/ /\ rPipe = "nil"
              /\ RFinish(rGot, "ErrInvalid", rBuf, pipe)
           \/ /\ rPipe = "dir"
              /\ RFinish(rGot, "EISDIR", rBuf, pipe)
           \/ /\ rPipe = "open" /\ rBuf # <<>>
              /\ \E k \in {Min(need, Len(rBuf))} :
                    \E got \in {rGot \o Take(rBuf, k)}, nbuf \in {Drop(rBuf, k)} :
                        RProgress(got, nbuf, pipe)
           \/ /\ rPipe = "open" /\ rBuf = <<>> /\ pipe # <<>>
              /\ \E n \in {Min(IF need >= BufSize THEN need ELSE BufSize, Len(pipe))} :
                    \E got \in {rGot \o Take(pipe, Min(need, n))},
                       nbuf \in {SubSeq(pipe, Min(need, n) + 1, n)},
                       npipe \in {Drop(pipe, n)} :
                        RProgress(got, nbuf, npipe)
           \/ /\ rPipe = "open" /\ rBuf = <<>> /\ pipe = <<>> /\ wEnd = "closed"
              /\ RFinish(rGot, IF rGot = <<>> THEN "EOF" ELSE "ErrUnexpectedEOF", rBuf, pipe)
    /\ UNCHANGED <<envVars, wVars, hR, rRet, rPipe, pipeChannel, pipeData>>

\* pipeChannel <- readData: blocks while the channel holds ChanCap messages.
RSend ==
    /\ procR = "running" /\ rpc = "send"
    /\ Len(pipeChannel) < ChanCap
    /\ pipeChannel' = Append(pipeChannel, rData)
    /\ rpc' = "readSize" /\ rSize' = 0 /\ rData' = Nil /\ rErr' = "nil"
    /\ UNCHANGED <<envVars, wVars, pipe, glog, procR, hR, rRet, rPipe, rEnd, rBuf,
                   rGot, pipeData>>

\* An interrupt or terminate signal reaches process R: the default action
\* kills the process while signal.Notify was not called; once it was, the
\* signal is sent to c without blocking (c has no buffer), so it is taken
\* only when the listener stands at `<-c`, which then calls os.Exit(0), and
\* is dropped otherwise.
SignalR ==
    /\ procR = "running"
    /\ procR' = CASE hR = "none" -> "killed"
                  [] hR \in {"notified", "missed"} -> procR
                  [] hR = "listening" -> "exit0"
    /\ hR' = IF hR = "notified" THEN "missed" ELSE hR
    /\ rEnd' = IF procR' = "running" THEN rEnd ELSE EndClosed(rEnd)
    /\ UNCHANGED <<envVars, wVars, pipe, glog, rRet, rpc, rPipe, rBuf, rGot,
                   rSize, rData, rErr, pipeChannel, pipeData>>

\* ------------------------------------------------------------ OpenPipeWriter
\* The synchronous part of OpenPipeWriter.
OpenPipeWriter ==
    /\ procW = "running" /\ wRet # "ok" /\ cpc = "idle"
    /\ IF ~doesFileExist(fs)
       THEN wRet' = "err" /\ wpc' = wpc
       ELSE wRet' = "ok" /\ wpc' = "setup"
    /\ UNCHANGED <<envVars, rVars, pipe, glog, procW, hW, wPipe, wEnd, pipeInput,
                   inClosed, taken, wData, wP, wBuf, wOut, wSys, wErr>>

\* setupCloseHandler in the writer's task.
WSetupCloseHandler ==
    /\ procW = "running" /\ wpc = "setup"
    /\ hW' = "notified" /\ wpc' = "open"
    /\ UNCHANGED <<envVars, rVars, pipe, glog, procW, wRet, wPipe, wEnd, pipeInput,
                   inClosed, taken, wData, wP, wBuf, wOut, wSys, wErr>>

WListen ==
    /\ procW = "running" /\ hW \in {"notified", "missed"}
    /\ hW' = "listening"
    /\ UNCHANGED <<envVars, rVars, pipe, glog, procW, wRet, wpc, wPipe, wEnd,
                   pipeInput, inClosed, taken, wData, wP, wBuf, wOut, wSys, wErr>>

\* os.OpenFile(pipePath, os.O_WRONLY, 0777) is entered: it fails with
\* ENOENT, or with EISDIR on a directory, and blocks on a FIFO.
WOpenCall ==
    /\ procW = "running" /\ wpc = "open"
    /\ IF fs # "fifo"
       THEN /\ glog' = glog \cup {"open-write"}
            /\ wPipe' = "nil" /\ wpc' = "recv" /\ wEnd' = wEnd
       ELSE /\ wEnd' = "open" /\ wpc' = "opening"
            /\ UNCHANGED <<glog, wPipe>>
    /\ UNCHANGED <<envVars, rVars, pipe, procW, hW, wRet, pipeInput, inClosed, taken,
                   wData, wP, wBuf, wOut, wSys, wErr>>

\* The open returns once a reader has opened the FIFO too.
WOpenReturn ==
    /\ procW = "running" /\ wpc = "opening" /\ rEnd # "never"
    /\ wPipe' = "open" /\ wpc' = "recv"
    /\ UNCHANGED <<envVars, rVars, pipe, glog, procW, hW, wRet, wEnd, pipeInput,
                   inClosed, taken, wData, wP, wBuf, wOut, wSys, wErr>>

\* The writer task from where it stands to its next blocking point (a write
\* syscall, the receive on pipeInput) or to os.Exit(1).  st holds pc, data,
\* p (what bufio.Writer.Write has still to accept), buf, out, sys, err.
\*   loggedWrite -> bufio.Writer.Write(p): while p exceeds the free room, an
\*   empty buffer lets p go to the file directly, a non-empty one is filled
\*   and flushed; b.err # nil makes Write return it, and loggedWrite then
\*   calls os.Exit(1); otherwise p is copied into the buffer.
\*   writer.Flush(): a no-op on b.err # nil or on an empty buffer, else one
\*   write of the buffer; its result is dropped by the loop.
\* Variant of Flush: the loop body ends without flushing.
FlushOmitted(st) == [st EXCEPT !.pc = "recv"]

\* writer.Flush() at the end of the loop body.
Flush(st) ==
    IF st.err \/ st.buf = <<>>
    THEN [st EXCEPT !.pc = "recv"]
    ELSE [st EXCEPT !.sys = "flush", !.out = st.buf]

RECURSIVE WRun(_)
WRun(st) ==
    IF st.sys # "none" \/ st.pc \in {"recv", "exit"} THEN st
    ELSE IF st.pc \in {"writeSize", "writeData"}
    THEN IF st.err THEN [st EXCEPT !.pc = "exit"]
         ELSE IF Len(st.p) > BufSize - Len(st.buf)
         THEN IF st.buf = <<>>
              THEN [st EXCEPT !.sys = "direct", !.out = st.p, !.p = <<>>]
              ELSE LET n == BufSize - Len(st.buf)
                   IN  [st EXCEPT !.buf = st.buf \o Take(st.p, n),
                                  !.p = Drop(st.p, n),
                                  !.sys = "fill",
                                  !.out = st.buf \o Take(st.p, n)]
         ELSE WRun([st EXCEPT !.buf = st.buf \o st.p,
                              !.p = IF st.pc = "writeSize" THEN st.data ELSE <<>>,
                              !.pc = IF st.pc = "writeSize" THEN "writeData" ELSE "flush"])
    ELSE Flush(st)

\* Variant of loggedWriteErrBranch: the record is written before the exit.
loggedWriteLogsFirst == <<"glog.Error", "os.Exit">>

\* The statements of loggedWrite's `if writeErr != nil` branch, in order.
loggedWriteErrBranch == <<"os.Exit", "glog.Error">>

\* The records a run of statements emits: os.Exit ends the process, and
\* what follows it is never executed.
RECURSIVE Emitted(_)
Emitted(stmts) ==
    IF stmts = <<>> \/ Head(stmts) = "os.Exit" THEN {}
    ELSE (IF Head(stmts) = "glog.Error" THEN {"write"} ELSE {}) \cup Emitted(Tail(stmts))

WState == [pc |-> wpc, data |-> wData, p |-> wP, buf |-> wBuf, out |-> wOut,
           sys |-> wSys, err |-> wErr]

\* The writer's variables after the task ran to st; at "exit" the error
\* branch of loggedWrite was run.
WSet(st) ==
    /\ wpc' = IF st.pc = "exit" THEN wpc ELSE st.pc
    /\ procW' = IF st.pc = "exit" THEN "exit1" ELSE procW
    /\ wEnd' = IF st.pc = "exit" THEN EndClosed(wEnd) ELSE wEnd
    /\ wData' = IF st.pc = "recv" THEN <<>> ELSE st.data
    /\ wP' = st.p /\ wBuf' = st.buf /\ wOut' = st.out /\ wSys' = st.sys
    /\ wErr' = st.err
    /\ glog' = IF st.pc = "exit" THEN glog \cup Emitted(loggedWriteErrBranch) ELSE glog

\* Variant of RangeEnds: the loop ends as soon as the channel is closed.
RangeEndsOnClose == inClosed

\* `range pipeInput` ends: the channel is closed and holds no message.
RangeEnds == pipeInput = <<>> /\ inClosed

\* `for data := range pipeInput`: take the next message and run the body up
\* to its first blocking point; when the channel is closed and empty the
\* loop ends and the deferred pipe.Close() runs.
WRecv ==
    /\ procW = "running" /\ wpc = "recv"
    /\ \/ /\ pipeInput # <<>>
          /\ pipeInput' = Tail(pipeInput)
          /\ taken' = Append(taken, Head(pipeInput))
          /\ \E st \in {WRun([WState EXCEPT !.pc = "writeSize",
                                             !.data = Head(pipeInput),
                                             !.p = PutUint64(Len(Head(pipeInput)))])} :
                WSet(st)
          /\ wPipe' = wPipe
       \/ /\ RangeEnds
          /\ wpc' = "done"
          /\ wPipe' = IF wPipe = "open" THEN "closed" ELSE wPipe
          /\ wEnd' = EndClosed(wEnd)
          /\ UNCHANGED <<procW, pipeInput, taken, wData, wP, wBuf, wOut, wSys, wErr, glog>>
    /\ UNCHANGED <<envVars, rVars, pipe, hW, wRet, inClosed>>

\* The write syscall in progress returned: n bytes short (fail) or complete.
\* A direct write that fails sets b.err; a failed flush keeps the bytes not
\* written in the buffer and sets b.err; a completed flush empties it.
WAfterSys(fail, rest) ==
    \E st \in {[WState EXCEPT !.sys = "none", !.out = <<>>,
                              !.err = fail,
                              !.buf = IF wSys = "direct" THEN wBuf
                                      ELSE IF fail THEN rest ELSE <<>>]} :
        IF wSys = "flush"
        THEN WSet([st EXCEPT !.pc = "recv"])
        ELSE \E nx \in {WRun(st)} : WSet(nx)

\* Progress of os.File.Write on the pipe: a nil file fails with
\* os.ErrInvalid; a FIFO whose read end is closed fails with EPIPE; else
\* some of the bytes enter the pipe while it has room (the call blocks when
\* it has none), and the call returns when all did.
WSyscall ==
    /\ procW = "running" /\ wSys # "none"
    /\ \/ /\ wPipe = "nil"
          /\ WAfterSys(TRUE, wOut) /\ pipe' = pipe
       \/ /\ wPipe = "open" /\ rEnd = "closed"
          /\ WAfterSys(TRUE, wOut) /\ pipe' = pipe
       \/ /\ wPipe = "open" /\ rEnd # "closed" /\ Len(pipe) < PipeCap
          /\ \E k \in 1..Min(Len(wOut), PipeCap - Len(pipe)) :
                /\ pipe' = pipe \o Take(wOut, k)
                /\ IF k = Len(wOut)
                   THEN WAfterSys(FALSE, <<>>)
                   ELSE /\ wOut' = Drop(wOut, k)
                        /\ UNCHANGED <<procW, wpc, wEnd, wData, wP, wBuf, wSys, wErr, glog>>
    /\ UNCHANGED <<envVars, rVars, hW, wRet, wPipe, pipeInput, inClosed, taken>>

SignalW ==
    /\ procW = "running"
    /\ procW' = CASE hW = "none" -> "killed"
                  [] hW \in {"notified", "missed"} -> procW
                  [] hW = "listening" -> "exit0"
    /\ hW' = IF hW = "notified" THEN "missed" ELSE hW
    /\ wEnd' = IF procW' = "running" THEN wEnd ELSE EndClosed(wEnd)
    /\ UNCHANGED <<envVars, rVars, pipe, glog, wRet, wpc, wPipe, pipeInput,
                   inClosed, taken, wData, wP, wBuf, wOut, wSys, wErr>>

\* ------------------------------------------------- the caller of the writer
\* pipeInput <- m
Put ==
    /\ procW = "running" /\ ~inClosed
    /\ Len(taken) + Len(pipeInput) < quota
    /\ Len(pipeInput) < InQCap
    /\ \E m \in menu : pipeInput' = Append(pipeInput, m)
    /\ UNCHANGED <<envVars, rVars, pipe, glog, procW, hW, wRet, wpc, wPipe, wEnd,
                   inClosed, taken, wData, wP, wBuf, wOut, wSys, wErr>>

\* close(pipeInput)
CloseInput ==
    /\ procW = "running" /\ ~inClosed
    /\ inClosed' = TRUE
    /\ UNCHANGED <<envVars, rVars, pipe, glog, procW, hW, wRet, wpc, wPipe, wEnd,
                   pipeInput, taken, wData, wP, wBuf, wOut, wSys, wErr>>

\* ---------------------------------------------------------- specifications
\* The two processes and their callers, without signals and without anyone
\* removing the pipe.
NextQuiet ==
    \/ CreatePipe \/ CreateRemove \/ CreateMkfifo
    \/ OpenPipeReader \/ RSetupCloseHandler \/ RListen \/ ROpenCall \/ ROpenReturn
    \/ RRead \/ RSend
    \/ OpenPipeWriter \/ WSetupCloseHandler \/ WListen \/ WOpenCall \/ WOpenReturn
    \/ WRecv \/ WSyscall
    \/ Put \/ CloseInput

Next == NextQuiet \/ RemovePath \/ SignalR \/ SignalW

Spec == Init /\ [][Next]_vars

\* The steps of the tasks in process R and in process W, syscalls included.
RStep == RSetupCloseHandler \/ RListen \/ ROpenCall \/ ROpenReturn \/ RRead \/ RSend

WStep == WSetupCloseHandler \/ WListen \/ WOpenCall \/ WOpenReturn \/ WRecv \/ WSyscall

\* The same system under the scheduling the Go runtime and the kernel give:
\* a process that can take a step eventually takes one.  (In each process
\* the loop's task has one step enabled at a time, and the listener has a
\* single step, so no task of a process can starve another.)
Fairness == WF_vars(RStep) /\ WF_vars(WStep)

\* A caller that sends a first message, of any length, and no second one.
InitFirst == InitWith(1, Payloads)

FairSpec == InitFirst /\ [][NextQuiet]_vars /\ Fairness

\* The shortest and the longest payload.
EdgePayloads == {<<>>, [i \in 1..MaxLen |-> 7]}

\* A caller that sends up to MaxMsgs messages, each empty or of full length.
InitEdge == InitWith(MaxMsgs, EdgePayloads)

\* The fair system with that caller.
FairSpecMsgs == InitEdge /\ [][NextQuiet]_vars /\ Fairness

\* The system started with anything at pipePath.
InitCreate == InitAt(MaxMsgs, Payloads, PathKinds)

SpecCreate == InitCreate /\ [][Next]_vars

\* A caller that sends one message more than pipeChannel holds.
BacklogPayloads == {<<7>>}

InitBacklog == InitWith(ChanCap + 1, BacklogPayloads)

SpecBacklog == InitBacklog /\ [][NextQuiet]_vars

\* ------------------------------------------------------------------ claims
\* The payloads of the messages on a channel, in order.
BytesOf(ch) == [i \in 1..Len(ch) |-> ch[i].bytes]

\* Both ends are open, nothing failed, every message the writer took is
\* framed, flushed and read, and the reader loop can do nothing more.
Drained ==
    /\ procR = "running" /\ procW = "running"
    /\ rPipe = "open" /\ wPipe = "open" /\ ~wErr
    /\ wpc = "recv" /\ pipeInput = <<>>
    /\ pipe = <<>> /\ rBuf = <<>>
    /\ ~ENABLED RRead /\ ~ENABLED RSend

\* C1: on a connected pipe without I/O errors every payload the writer loop
\* framed reaches pipeData, the queue the caller passed to OpenPipeReader:
\* once the reader loop has nothing left to do, pipeData has received all of
\* them.
C1_DeliveredToCaller == Drained => BytesOf(pipeData) = taken

\* C2: FIFO: what the reader loop has enqueued is always a prefix of what
\* the writer loop took, and it is all of it once the reader loop can do
\* nothing more.
C2_FifoComplete ==
    /\ IsPrefix(BytesOf(pipeChannel), taken)
    /\ Drained => BytesOf(pipeChannel) = taken

\* C3: the message the reader loop is about to put on its queue has the
\* length its 8-byte prefix declared, also when the payload read ended early.
C3_DeclaredLength == rpc = "send" => GoLen(rData) = rSize

\* C4: when the payload read of a frame declaring L > 0 bytes ended before L
\* bytes came, the message the reader enqueues for it does not have length L.
C4_LengthFidelity ==
    [][(rpc = "send" /\ rSize > 0 /\ rErr # "nil" /\ pipeChannel' # pipeChannel)
          => GoLen(pipeChannel'[Len(pipeChannel')]) # rSize]_vars

\* A short payload read happened and its message was enqueued.
C4_Witness == \E i \in DOMAIN pipeChannel : pipeChannel[i] = Nil

\* C5: round trip: the length the reader decodes and the message it gets
\* from a completed two-phase read are the length and the bytes of the
\* message the writer encoded, for every payload length 0..MaxLen; a payload
\* of length 0 comes out of loggedRead's success path as a non-nil message
\* of length 0; and a nil message is enqueued only after the write end of
\* the pipe was closed.
C5_RoundTrip ==
    LET i == Len(pipeChannel) + 1
    IN  /\ rSize # 0 => i <= Len(taken) /\ rSize = Len(taken[i])
        /\ rpc = "send" /\ rErr = "nil" =>
              /\ i <= Len(taken)
              /\ rSize = Len(taken[i])
              /\ rData = Slice(taken[i])
        /\ \A j \in DOMAIN pipeChannel :
              IF pipeChannel[j].isNil
              THEN wEnd = "closed"
              ELSE j <= Len(taken) /\ pipeChannel[j] = Slice(taken[j])

\* An empty payload and one of the greatest length both made the round trip.
C5_Witness ==
    \E j, k \in DOMAIN pipeChannel :
        /\ pipeChannel[j] = Slice(<<>>) /\ taken[j] = <<>>
        /\ pipeChannel[k] = Slice(taken[k]) /\ Len(taken[k]) = MaxLen

\* C6: a decode error never ends the reader loop or its process.
C6_SurvivesDecodeError == ~(rPipe = "open" /\ rErr # "nil" /\ procR = "panic")

\* C7: a write that failed (the length prefix, the payload or the flush)
\* ends the process at once with exit code 1.
C7_WriteErrorIsFatal == (wPipe = "open" /\ wErr) => procW = "exit1"

\* C8: a call of OpenPipeReader or OpenPipeWriter with nothing at pipePath
\* returns an error and leaves everything else as it was; and while no call
\* has returned success there is no task, no signal listener, no open of the
\* pipe and no traffic on the queues.
C8_NotFoundGuard ==
    /\ [](rRet # "ok" => /\ rpc = "none" /\ hR = "none" /\ rEnd = "never"
                         /\ rPipe = "none" /\ pipeChannel = <<>> /\ pipeData = <<>>)
    /\ [](wRet # "ok" => /\ wpc = "none" /\ hW = "none" /\ wEnd = "never"
                         /\ wPipe = "none" /\ taken = <<>>)
    /\ [][(fs = "none" /\ rRet' # rRet) =>
             (rRet' = "err" /\ UNCHANGED <<envVars, wVars, pipe, glog, procR, hR, rpc,
                  rPipe, rEnd, rBuf, rGot, rSize, rData, rErr, pipeChannel, pipeData>>)]_vars
    /\ [][(fs = "none" /\ wRet' # wRet) =>
             (wRet' = "err" /\ UNCHANGED <<envVars, rVars, pipe, glog, procW, hW, wpc,
                  wPipe, wEnd, pipeInput, inClosed, taken, wData, wP, wBuf, wOut, wSys,
                  wErr>>)]_vars

\* Both calls were made with nothing at pipePath.
C8_Witness == fs = "none" /\ rRet = "err" /\ wRet = "err"

C10_Rendezvous ==
    /\ (rRet = "ok" /\ wRet = "ok") ~> (rPipe = "open" /\ wPipe \in {"open", "closed"})
    /\ (rRet = "ok" /\ wRet = "ok" /\ Len(taken) + Len(pipeInput) >= 1)
          ~> (Len(pipeChannel) >= 1 /\ pipeChannel[1] = Slice(taken[1]))

\* Both loops were started, no open failed and the first message went through.
C10_Witness ==
    /\ wRet = "ok" /\ rRet = "ok" /\ glog = {}
    /\ Len(pipeChannel) >= 1 /\ pipeChannel[1] = Slice(taken[1])

\* ----------------------------------------------------- the byte stream
\* The frame of a message: [size uint64, bytes []byte].
Frame(m) == PutUint64(Len(m)) \o m

RECURSIVE Frames(_)
Frames(ms) == IF ms = <<>> THEN <<>> ELSE Frame(Head(ms)) \o Frames(Tail(ms))

\* The reader read from an opened pipe and no read of it failed so far.
ReaderClean ==
    /\ rPipe = "open" /\ rErr = "nil"
    /\ \A j \in DOMAIN pipeChannel : ~pipeChannel[j].isNil

\* The bytes the reader took out of the pipe: the frames of the messages it
\* enqueued, the part of the frame in hand, and what bufio.Reader holds.
ReaderHas ==
    Frames(BytesOf(pipeChannel))
      \o (CASE rpc = "readSize" -> rGot
             [] rpc = "readData" -> PutUint64(rSize) \o rGot
             [] rpc = "send" -> PutUint64(rSize) \o rData.bytes
             [] OTHER -> <<>>)
      \o rBuf

\* The bytes the writer handed to the OS pipe, in order.
HandedToPipe == ReaderHas \o pipe

\* The bytes of taken messages the writer still holds: in bufio.Writer's
\* buffer or in the write in progress, and not yet passed to Write.
WriterHolds ==
    (IF wSys = "none" THEN wBuf ELSE wOut) \o wP
      \o (IF wpc = "writeSize" THEN wData ELSE <<>>)

C12_SignalExits ==
    /\ ~(procR = "running" /\ hR = "missed")
    /\ ~(procW = "running" /\ hW = "missed")

\* C13: CreatePipe removes first whatever entry is at pipePath, of any
\* kind; a pipe appears at pipePath only by its Mkfifo on the free path (so
\* a pipe it made is a fresh one); when the removal fails it returns without
\* calling Mkfifo, the entry left as it was; and it goes on to Mkfifo only
\* with the entry removed.
C13_RemoveThenCreate ==
    /\ [][(cpc = "idle" /\ cpc' # "idle" /\ fs # "none") => cpc' = "remove"]_vars
    /\ [][(fs' = "fifo" /\ fs # "fifo") =>
             (cpc = "mkfifo" /\ fs = "none" /\ cpc' = "idle")]_vars
    /\ [][(cpc = "remove" /\ cpc' = "idle") => (fs' = fs /\ fs # "fifo")]_vars
    /\ [][(cpc = "remove" /\ cpc' = "mkfifo") => fs' = "none"]_vars

\* C14: on an opened pipe the bytes the writer handed to the pipe and the
\* ones it still holds are the frames of the messages it took, prefix
\* before payload, in order; and whenever the loop stands at the receive on
\* pipeInput, bufio.Writer's buffer is empty and every byte of every message
\* taken was handed to the pipe.
C14_FrameAtATime ==
    /\ (wPipe = "open" /\ ~wErr /\ ReaderClean) =>
           HandedToPipe \o WriterHolds = Frames(taken)
    /\ (procW = "running" /\ wPipe = "open" /\ wpc = "recv") =>
           /\ wBuf = <<>> /\ WriterHolds = <<>> /\ wSys = "none"
           /\ ReaderClean => HandedToPipe = Frames(taken)

\* The number of bytes the writer handed to the pipe so far.
HandedCount == Len(Frames(taken)) - Len(WriterHolds)

C16_Backpressure ==
    /\ Len(pipeChannel) <= ChanCap
    /\ IsPrefix(BytesOf(pipeChannel), taken)
    /\ (procR = "running" /\ rpc = "send" /\ Len(pipeChannel) = ChanCap)
          => pipeData # <<>>

\* C17: after a failed open in the background task the failure is logged
\* and the nil file is left alone: the reader performs no read, enqueues
\* nothing and its process does not panic; the writer takes no message from
\* pipeInput and performs no write.
C17_FailedOpenIsInert ==
    /\ rPipe = "nil" =>
          /\ "open-read" \in glog
          /\ rErr = "nil" /\ procR # "panic" /\ pipeChannel = <<>>
    /\ wPipe = "nil" =>
          /\ "open-write" \in glog
          /\ taken = <<>> /\ wSys = "none" /\ ~wErr

\* C18: no record of a write failure is ever logged: on the fatal write
\* path the process exits with status 1 and the step emits no record.
C18_ExitBeforeLog ==
    /\ []("write" \notin glog)
    /\ [][(procW' = "exit1" /\ procW # "exit1") => glog' = glog]_vars

\* loggedWrite got a write error on the opened pipe and the process exited
\* with status 1.
C18_Witness == procW = "exit1" /\ wPipe = "open" /\ wErr

====
